---------------------------- MODULE Spec2Model ----------------------------
(***************************************************************************)
(* The scientific calculator component (Calculator, whose source is the    *)
(* second half of src/calculator_frontend/src/App.test.js) as a state      *)
(* machine: the React state of the component, one action per event         *)
(* handler, and the asynchronous requests to the external history store.   *)
(*                                                                         *)
(* Strings are sequences of one-character strings ("12" is <<"1","2">>);   *)
(* the tokens of a history expression that are never taken apart (the      *)
(* function name, the operator, the blank) are single elements.            *)
(*                                                                         *)
(* A JavaScript number is a record [k, n, s]: k = "num" is the decimal     *)
(* n / 10^s (normalised: s = 0 or n not a multiple of 10), k = "nan" is    *)
(* NaN, k = "null" is null (prevValue only), and k = "out" marks a value   *)
(* outside the bounded domain of the model: a handler whose result is      *)
(* "out" is not taken.                                                     *)
(***************************************************************************)
EXTENDS Integers, Sequences, FiniteSets, TLC

\* ------------------------------------------------------------------ bounds
\* Largest magnitude of a number the model computes with.
MaxAbs == 4
\* Most decimal places of a number the model computes with.
MaxScale == 2
\* Most characters typed into the display.
MaxDisplayLen == 2
\* Most evaluations (entries recorded) in one run.
MaxEvals == 2
\* Most mirror writes awaiting their response at once.
MaxInflight == 1
\* Most commands of a logged run.
MaxCmds == 6
\* evaluations in a run of SpecPair
PairMaxEvals == 1
\* Most characters typed into the display in a run of SpecKeys.
KeysDisplayLen == 3
\* The keys the runs press: with the store, and in the logged runs.
Digits == {"2"}
Ops == {"+"}
Fns == {"x2"}
ChainDigits == {"1", "2", "3"}
ChainOps == {"+", "-", "*"}
ChainMaxAbs == 40
KeyDigits == {"0", "4"}
KeyOps == {"/"}
KeyFns == {"sqrt", "1/x", "log"}
\* SpecKeys evaluates when this many entries have been recorded: a run of it
\* is the keys up to an evaluation and any keys after it.  (The display and
\* the flag do not depend on the history: runs of several evaluations are
\* those of Spec and SpecPair.)
KeysEvalsBefore == {0}

\* ------------------------------------------------------- program constants
\* pushHistory keeps 10 entries; loadHistory asks for 10 rows.
HistoryLimit == 10

\* ----------------------------------------------------------------- numbers
Num(n, s) == [k |-> "num", n |-> n, s |-> s]
NaN == [k |-> "nan", n |-> 0, s |-> 0]
Null == [k |-> "null", n |-> 0, s |-> 0]
Out == [k |-> "out", n |-> 0, s |-> 0]
Zero == Num(0, 0)
\* Infinity (sg = 1) and -Infinity (sg = -1).
Inf(sg) == [k |-> "inf", n |-> sg, s |-> 0]

Abs(x) == IF x < 0 THEN -x ELSE x
Max(a, b) == IF a > b THEN a ELSE b

RECURSIVE Pow10(_)
Pow10(s) == IF s = 0 THEN 1 ELSE 10 * Pow10(s - 1)

RECURSIVE Pow5(_)
Pow5(s) == IF s = 0 THEN 1 ELSE 5 * Pow5(s - 1)

\* The decimal n / 10^s without trailing zeros in its fraction.
RECURSIVE Norm(_, _)
Norm(n, s) == IF s > 0 /\ n % 10 = 0 THEN Norm(n \div 10, s - 1) ELSE Num(n, s)

\* A double holds x exactly: an integer, or a decimal whose denominator is a
\* power of two.  Arithmetic on other decimals rounds, which the model does
\* not follow: such an operation yields Out.
IsExact(x) == x.k = "num" /\ Abs(x.n) % Pow5(x.s) = 0

\* x is a number of the model whose magnitude is at most lim.
InDomain(x, lim) ==
    \/ x.k \in {"nan", "null", "inf"}
    \/ x.k = "num" /\ x.s <= MaxScale /\ Abs(x.n) <= lim * Pow10(x.s)

NumAdd(a, b) ==
    LET s == Max(a.s, b.s)
    IN  Norm(a.n * Pow10(s - a.s) + b.n * Pow10(s - b.s), s)

NumNeg(a) == Num(-a.n, a.s)

NumMul(a, b) == Norm(a.n * b.n, a.s + b.s)

\* a / b for b # 0: the quotient when it is a decimal of at most MaxScale
\* places (a correctly rounded quotient then prints as that decimal).
NumDiv(a, b) ==
    LET p == a.n * Pow10(b.s) * Pow10(MaxScale)
        q == b.n * Pow10(a.s)
        sg == IF (p < 0) = (q < 0) THEN 1 ELSE -1
    IN  IF Abs(p) % Abs(q) = 0
        THEN Norm(sg * (Abs(p) \div Abs(q)), MaxScale)
        ELSE Out

\* ----------------------------------------------------------------- strings
DigitSeq == <<"0", "1", "2", "3", "4", "5", "6", "7", "8", "9">>
DigitChars == {DigitSeq[i] : i \in 1..10}
DigitChar(i) == DigitSeq[i + 1]
DigitOf(c) == CHOOSE i \in 0..9 : DigitSeq[i + 1] = c

Take(q, n) == SubSeq(q, 1, IF Len(q) < n THEN Len(q) ELSE n)

AllDigits(q) == \A i \in 1..Len(q) : q[i] \in DigitChars

RECURSIVE DigitsVal(_)
DigitsVal(q) ==
    IF q = <<>> THEN 0
    ELSE DigitsVal(SubSeq(q, 1, Len(q) - 1)) * 10 + DigitOf(q[Len(q)])

RECURSIVE IntChars(_)
IntChars(n) ==
    IF n < 10 THEN <<DigitChar(n)>>
    ELSE IntChars(n \div 10) \o <<DigitChar(n % 10)>>

\* The s digits of the fraction f / 10^s.
RECURSIVE FracChars(_, _)
FracChars(f, s) ==
    IF s = 0 THEN <<>>
    ELSE FracChars(f \div 10, s - 1) \o <<DigitChar(f % 10)>>

\* String(value) of a number.
InfinityChars == <<"I", "n", "f", "i", "n", "i", "t", "y">>

String(x) ==
    IF x.k = "nan" THEN <<"N", "a", "N">>
    ELSE IF x.k = "inf"
    THEN (IF x.n < 0 THEN <<"-">> ELSE <<>>) \o InfinityChars
    ELSE LET a == Abs(x.n)
             ip == a \div Pow10(x.s)
             fp == a % Pow10(x.s)
         IN  (IF x.n < 0 THEN <<"-">> ELSE <<>>)
             \o IntChars(ip)
             \o (IF x.s > 0 THEN <<".">> \o FracChars(fp, x.s) ELSE <<>>)

\* Number(value) of a string: an optional sign, digits, at most one point.
JSNumber(str) ==
    LET neg == Len(str) > 0 /\ str[1] = "-"
        body == IF neg THEN Tail(str) ELSE str
        dots == {i \in 1..Len(body) : body[i] = "."}
    IN  IF str = <<>> THEN Zero
        ELSE IF body = InfinityChars THEN Inf(IF neg THEN -1 ELSE 1)
        ELSE IF Cardinality(dots) > 1 THEN NaN
        ELSE LET dot == IF dots = {} THEN Len(body) + 1
                        ELSE CHOOSE i \in dots : TRUE
                 ip == SubSeq(body, 1, dot - 1)
                 fp == SubSeq(body, dot + 1, Len(body))
                 ds == ip \o fp
             IN  IF ds = <<>> \/ ~AllDigits(ds) THEN NaN
                 ELSE Norm((IF neg THEN -1 ELSE 1) * DigitsVal(ds), Len(fp))

toNumber(value) ==
    LET n == JSNumber(value)
    IN  IF n.k = "num" THEN n ELSE Zero

\* formatNumber of a number: String(value), and when that holds a point,
\* parseFloat of it printed again, which is the same string.
formatNumber(value) ==
    LET str == String(value)
    IN  IF \A i \in 1..Len(str) : str[i] # "." THEN str
        ELSE LET n == JSNumber(str)
             IN  IF n.k = "num" THEN String(n) ELSE str

\* computeBinary without its guard on a zero divisor: the quotient of IEEE
\* arithmetic (0 / 0 is NaN, anything else over 0 is infinite).
computeBinaryUnguarded(a, b, op) ==
    IF a.k = "nan" \/ b.k = "nan" THEN NaN
    ELSE IF op = "/" /\ b.n = 0
    THEN (IF a.n = 0 THEN NaN ELSE Inf(IF a.n < 0 THEN -1 ELSE 1))
    ELSE IF op = "/" /\ IsExact(a) /\ IsExact(b) THEN NumDiv(a, b)
    ELSE Out

computeBinary(a, b, op) ==
    LET nan == a.k = "nan" \/ b.k = "nan"
        \* no operand is infinite: toNumber gives finite numbers, and the
        \* results in the model's range are finite or NaN
        exact == IsExact(a) /\ IsExact(b)
    IN  CASE op = "+" -> IF nan THEN NaN ELSE IF exact THEN NumAdd(a, b) ELSE Out
          [] op = "-" -> IF nan THEN NaN ELSE IF exact THEN NumAdd(a, NumNeg(b)) ELSE Out
          [] op = "*" -> IF nan THEN NaN ELSE IF exact THEN NumMul(a, b) ELSE Out
          [] op = "/" -> IF b.k = "num" /\ b.n = 0 THEN NaN
                         ELSE IF nan THEN NaN
                         ELSE IF exact THEN NumDiv(a, b) ELSE Out
          [] OTHER -> b

\* The value of a unary function of the scientific keypad, where the model
\* can state it exactly; Out elsewhere.
RECURSIVE IntSqrt(_, _)
IntSqrt(n, r) == IF r * r >= n THEN r ELSE IntSqrt(n, r + 1)

evaluateUnary(x, fn, angleMode) ==
    CASE fn = "sin" ->
           \* Math.sin(fromAngleInput(x)): exact at 0, and at +-90 degrees.
           IF x.n = 0 THEN Zero
           ELSE IF angleMode = "DEG" /\ x.s = 0 /\ Abs(x.n) = 90
                THEN Num(x.n \div 90, 0)
                ELSE Out
      [] fn = "sqrt" ->
           IF x.n < 0 THEN NaN
           ELSE IF x.s % 2 = 0 /\ IsExact(x) /\ IntSqrt(x.n, 0) * IntSqrt(x.n, 0) = x.n
                THEN Norm(IntSqrt(x.n, 0), x.s \div 2)
                ELSE Out
      [] fn = "x2" -> IF IsExact(x) THEN NumMul(x, x) ELSE Out
      [] fn = "1/x" ->
           IF x.n = 0 THEN NaN
           ELSE IF IsExact(x) THEN NumDiv(Num(1, 0), x) ELSE Out
      [] fn = "|x|" -> Num(Abs(x.n), x.s)
      [] fn = "log" ->
           \* Math.log10(Math.abs(x)): -Infinity at 0, 0 at 1 and -1.
           IF x.n = 0 THEN Inf(-1)
           ELSE IF x.s = 0 /\ Abs(x.n) = 1 THEN Zero
           ELSE Out
      [] OTHER -> x

\* ------------------------------------------------------------------- state
VARIABLES
    display,            \* useState('0'): the display buffer
    prevValue,          \* useState(null): the pending left operand
    operator,           \* useState(null): the pending operator, "null" for null
    waitingForOperand,  \* useState(false): the operand boundary flag
    angleMode,          \* useState('DEG')
    history,            \* useState([]): the local history, newest first
    sbReady,            \* useState(isSupabaseConfigured())
    configured,         \* isSupabaseConfigured(): the credentials are present
    isMounted,          \* loadHistory's effect has not been cleaned up
    loadPc,             \* where loadHistory is: none (sbReady was false), probe
                        \* and fetch (awaiting), fetched (the answer on its
                        \* way), or how it ended: probeFailed, readFailed, done
    hydratedAt,         \* evals when the fetched rows replaced the history
    fetched,            \* the response to getRecentHistory on its way back
    writes,             \* the logCalculation requests awaiting their response
    table,              \* the rows of calc_history in the store, newest first
    kbSbReady,          \* sbReady as the registered onKeyDown closure holds it
    evals,              \* the evaluations recorded so far (the clock of created_at)
    twin,               \* a second run given the same commands (<<>>: none)
    log                 \* the commands pressed so far (NoLog: not recorded)

vars == <<display, prevValue, operator, waitingForOperand, angleMode, history,
          sbReady, configured, isMounted, loadPc, hydratedAt, fetched, writes,
          table, kbSbReady, evals, twin, log>>

\* The state of one run as a record, which the handlers read and return.
Cur == [display |-> display, prevValue |-> prevValue, operator |-> operator,
        waitingForOperand |-> waitingForOperand, angleMode |-> angleMode,
        history |-> history, sbReady |-> sbReady, configured |-> configured,
        isMounted |-> isMounted, loadPc |-> loadPc,
        hydratedAt |-> hydratedAt, fetched |-> fetched,
        writes |-> writes, table |-> table, kbSbReady |-> kbSbReady,
        evals |-> evals]

Set(S) ==
    /\ display' = S.display
    /\ prevValue' = S.prevValue
    /\ operator' = S.operator
    /\ waitingForOperand' = S.waitingForOperand
    /\ angleMode' = S.angleMode
    /\ history' = S.history
    /\ sbReady' = S.sbReady
    /\ configured' = S.configured
    /\ isMounted' = S.isMounted
    /\ loadPc' = S.loadPc
    /\ hydratedAt' = S.hydratedAt
    /\ fetched' = S.fetched
    /\ writes' = S.writes
    /\ table' = S.table
    /\ kbSbReady' = S.kbSbReady
    /\ evals' = S.evals

Set0(S) ==
    /\ display = S.display
    /\ prevValue = S.prevValue
    /\ operator = S.operator
    /\ waitingForOperand = S.waitingForOperand
    /\ angleMode = S.angleMode
    /\ history = S.history
    /\ sbReady = S.sbReady
    /\ configured = S.configured
    /\ isMounted = S.isMounted
    /\ loadPc = S.loadPc
    /\ hydratedAt = S.hydratedAt
    /\ fetched = S.fetched
    /\ writes = S.writes
    /\ table = S.table
    /\ kbSbReady = S.kbSbReady
    /\ evals = S.evals

NoRows == [ok |-> TRUE, throws |-> FALSE, rows |-> <<>>]

\* The rows a store holds from before the session.
OldRow(i) == [expression |-> <<"old">>, result |-> IntChars(i), created_at |-> 0]
OldTable(k) == [i \in 1..k |-> OldRow(i)]

\* The state after the component has mounted: the first render, and the
\* first run of loadHistory's effect, which issues the probe when sbReady.
Mounted(cfg, rows) ==
    [display |-> <<"0">>, prevValue |-> Null, operator |-> "null",
     waitingForOperand |-> FALSE, angleMode |-> "DEG", history |-> <<>>,
     sbReady |-> cfg, configured |-> cfg, isMounted |-> TRUE,
     loadPc |-> IF cfg THEN "probe" ELSE "none", hydratedAt |-> 0,
     fetched |-> NoRows,
     writes |-> {}, table |-> rows, kbSbReady |-> cfg, evals |-> 0]

\* ConnectivityState: the three states of the guard, from the two booleans.
Connectivity(S) ==
    IF ~S.configured THEN "Unconfigured"
    ELSE IF S.sbReady THEN "Connected" ELSE "Offline"

\* What a render does besides showing the state: the effect of loadHistory
\* (deps [sbReady]) is cleaned up when sbReady has changed and runs again,
\* issuing the probe anew if it finds sbReady true (it finds it false:
\* nothing sets sbReady to true); the effect that registers onKeyDown (deps display,
\* prevValue, operator, waitingForOperand, angleMode) registers a closure of
\* the new render only when one of these has changed.
KeyDeps(S) == <<S.display, S.prevValue, S.operator, S.waitingForOperand, S.angleMode>>

Render(old, new) ==
    [new EXCEPT
       !.isMounted = IF new.sbReady # old.sbReady THEN new.sbReady
                     ELSE new.isMounted,
       !.loadPc = IF new.sbReady # old.sbReady /\ new.sbReady THEN "probe"
                  ELSE new.loadPc,
       !.kbSbReady = IF KeyDeps(new) # KeyDeps(old) THEN new.sbReady
                     ELSE old.kbSbReady]

\* ---------------------------------------------------------------- handlers
\* pushHistory without its slice.
pushHistoryNoSlice(S, expression, result) ==
    [S EXCEPT
       !.history = <<[expression |-> expression, result |-> result,
                      created_at |-> S.evals + 1]>> \o S.history,
       !.evals = S.evals + 1]

\* pushHistory that leaves the recording to the store while it is ready.
pushHistoryUnlessReady(S, expression, result) ==
    [S EXCEPT
       !.history = IF S.sbReady THEN S.history
                   ELSE Take(<<[expression |-> expression, result |-> result,
                                created_at |-> S.evals + 1]>> \o S.history,
                             HistoryLimit),
       !.evals = S.evals + 1]

\* pushHistory that records only while the store is ready.
pushHistoryOnlyReady(S, expression, result) ==
    [S EXCEPT
       !.history = IF ~S.sbReady /\ S.configured THEN S.history
                   ELSE Take(<<[expression |-> expression, result |-> result,
                                created_at |-> S.evals + 1]>> \o S.history,
                             HistoryLimit),
       !.evals = S.evals + 1]

pushHistory(S, expression, result) ==
    [S EXCEPT
       !.history = Take(<<[expression |-> expression, result |-> result,
                           created_at |-> S.evals + 1]>> \o S.history,
                        HistoryLimit),
       !.evals = S.evals + 1]

\* persistHistory without its guard on sbReady.
persistHistoryAlways(S, ready, expression, result, at) ==
    [S EXCEPT !.writes = S.writes \cup
       {[expression |-> expression, result |-> result, created_at |-> at]}]

\* persistHistory up to its await: ready is sbReady as the closure that
\* runs holds it.  The request carries the expression and the result; the
\* number of the evaluation stands for the row the store creates.
persistHistory(S, ready, expression, result, at) ==
    IF ~ready THEN S
    ELSE [S EXCEPT !.writes = S.writes \cup
            {[expression |-> expression, result |-> result,
              created_at |-> at]}]

\* handleDigit that appends whatever the boundary flag says.
handleDigitAppends(S, d) ==
    IF S.display = <<"0">>
    THEN [S EXCEPT !.display = <<d>>, !.waitingForOperand = FALSE]
    ELSE [S EXCEPT !.display = Append(S.display, d), !.waitingForOperand = FALSE]

handleDigit(S, d) ==
    IF S.waitingForOperand
    THEN [S EXCEPT !.display = <<d>>, !.waitingForOperand = FALSE]
    ELSE IF S.display = <<"0">> THEN [S EXCEPT !.display = <<d>>]
    ELSE [S EXCEPT !.display = Append(S.display, d)]

\* handleDecimal that appends the point whatever the display holds.
handleDecimalAppends(S) ==
    IF S.waitingForOperand
    THEN [S EXCEPT !.display = <<"0", ".">>, !.waitingForOperand = FALSE]
    ELSE [S EXCEPT !.display = Append(S.display, ".")]

handleDecimal(S) ==
    IF S.waitingForOperand
    THEN [S EXCEPT !.display = <<"0", ".">>, !.waitingForOperand = FALSE]
    ELSE IF \A i \in 1..Len(S.display) : S.display[i] # "."
    THEN [S EXCEPT !.display = Append(S.display, ".")]
    ELSE S

\* handleOperator without the evaluation of the pending operation: the
\* second operator of a chain drops the first operand.
handleOperatorNoChain(S, nextOp) ==
    [S EXCEPT !.prevValue = toNumber(S.display), !.operator = nextOp,
              !.waitingForOperand = TRUE]

\* handleOperator that evaluates the pending operation at every operator.
handleOperatorEvaluates(S, nextOp) ==
    LET inputValue == toNumber(S.display)
        result == computeBinary(S.prevValue, inputValue, S.operator)
        T == IF S.prevValue = Null THEN [S EXCEPT !.prevValue = inputValue]
             ELSE [S EXCEPT !.prevValue = result, !.display = formatNumber(result)]
    IN  [T EXCEPT !.operator = nextOp, !.waitingForOperand = TRUE]

handleOperator(S, nextOp) ==
    LET inputValue == toNumber(S.display)
        result == computeBinary(S.prevValue, inputValue, S.operator)
        T == IF S.prevValue = Null THEN [S EXCEPT !.prevValue = inputValue]
             ELSE IF ~S.waitingForOperand
             THEN [S EXCEPT !.prevValue = result, !.display = formatNumber(result)]
             ELSE S
    IN  [T EXCEPT !.operator = nextOp, !.waitingForOperand = TRUE]

\* handleEquals that records the display again when nothing is pending.
handleEqualsRepeats(S, ready) ==
    IF S.operator = "null" \/ S.prevValue = Null
    THEN pushHistory([S EXCEPT !.waitingForOperand = TRUE],
                     S.display, S.display)
    ELSE LET a == S.prevValue
             b == toNumber(S.display)
             result == computeBinary(a, b, S.operator)
             expr == formatNumber(a) \o <<" ", S.operator, " ">> \o formatNumber(b)
             T == [S EXCEPT !.display = formatNumber(result),
                            !.prevValue = Null,
                            !.operator = "null",
                            !.waitingForOperand = TRUE]
             U == pushHistory(T, expr, String(result))
         IN  persistHistory(U, ready, expr, String(result), U.evals)

\* handleEquals that keeps the result as the pending left operand.
handleEqualsKeepsLeft(S, ready) ==
    IF S.operator = "null" \/ S.prevValue = Null THEN S
    ELSE LET a == S.prevValue
             b == toNumber(S.display)
             result == computeBinary(a, b, S.operator)
             expr == formatNumber(a) \o <<" ", S.operator, " ">> \o formatNumber(b)
             T == [S EXCEPT !.display = formatNumber(result),
                            !.prevValue = result,
                            !.waitingForOperand = TRUE]
             U == pushHistory(T, expr, String(result))
         IN  persistHistory(U, ready, expr, String(result), U.evals)

\* handleEquals that shows the result only once the store has taken it.
handleEqualsAwaitsStore(S, ready) ==
    IF S.operator = "null" \/ S.prevValue = Null THEN S
    ELSE LET a == S.prevValue
             b == toNumber(S.display)
             result == computeBinary(a, b, S.operator)
             expr == formatNumber(a) \o <<" ", S.operator, " ">> \o formatNumber(b)
             T == [S EXCEPT !.display = IF ready THEN S.display
                                        ELSE formatNumber(result),
                            !.prevValue = Null,
                            !.operator = "null",
                            !.waitingForOperand = TRUE]
             U == pushHistory(T, expr, String(result))
         IN  persistHistory(U, ready, expr, String(result), U.evals)

handleEquals(S, ready) ==
    IF S.operator = "null" \/ S.prevValue = Null THEN S
    ELSE LET a == S.prevValue
             b == toNumber(S.display)
             result == computeBinary(a, b, S.operator)
             expr == formatNumber(a) \o <<" ", S.operator, " ">> \o formatNumber(b)
             T == [S EXCEPT !.display = formatNumber(result),
                            !.prevValue = Null,
                            !.operator = "null",
                            !.waitingForOperand = TRUE]
             U == pushHistory(T, expr, String(result))
         IN  persistHistory(U, ready, expr, String(result), U.evals)

\* handleDelete that takes no notice of the boundary flag.
handleDeleteAlways(S) ==
    IF Len(S.display) <= 1 THEN [S EXCEPT !.display = <<"0">>]
    ELSE LET next == SubSeq(S.display, 1, Len(S.display) - 1)
         IN  [S EXCEPT !.display = IF next = <<"-">> THEN <<"0">> ELSE next]

handleDelete(S) ==
    IF S.waitingForOperand THEN S
    ELSE IF Len(S.display) <= 1 THEN [S EXCEPT !.display = <<"0">>]
    ELSE LET next == SubSeq(S.display, 1, Len(S.display) - 1)
         IN  [S EXCEPT !.display = IF next = <<"-">> THEN <<"0">> ELSE next]

handlePlusMinus(S) ==
    IF S.display = <<"0">> THEN S
    ELSE IF S.display[1] = "-" THEN [S EXCEPT !.display = Tail(S.display)]
    ELSE [S EXCEPT !.display = <<"-">> \o S.display]

\* n / 100 of handlePercent: the decimal two places down, which the quotient
\* of an exactly held n prints as.
percentOf(n) == IF IsExact(n) THEN NumDiv(n, Num(100, 0)) ELSE Out

handlePercent(S) ==
    [S EXCEPT !.display = formatNumber(percentOf(toNumber(S.display)))]

\* handleClear that keeps the history for the session only until Clear.
handleClearAll(S) ==
    [S EXCEPT !.display = <<"0">>, !.prevValue = Null, !.operator = "null",
              !.waitingForOperand = FALSE, !.history = <<>>]

handleClear(S) ==
    [S EXCEPT !.display = <<"0">>, !.prevValue = Null, !.operator = "null",
              !.waitingForOperand = FALSE]

\* formatNumber(Math.PI) and formatNumber(Math.E): the digits String prints.
PiChars == <<"3", ".", "1", "4", "1", "5", "9", "2", "6", "5", "3", "5", "8",
             "9", "7", "9", "3">>
EChars == <<"2", ".", "7", "1", "8", "2", "8", "1", "8", "2", "8", "4", "5",
            "9", "0", "4", "5">>

handleConstant(S, name) ==
    [S EXCEPT !.display = IF name = "PI" THEN PiChars
                          ELSE IF name = "E" THEN EChars
                          ELSE S.display,
              !.waitingForOperand = FALSE]

\* applyUnary that keeps its result as the left operand as well.
applyUnaryAsOperand(S, fn, ready) ==
    LET x == toNumber(S.display)
        y == evaluateUnary(x, fn, S.angleMode)
        expr == <<fn, "(">> \o formatNumber(x) \o <<")">>
        T == [S EXCEPT !.display = formatNumber(y), !.waitingForOperand = TRUE,
                       !.prevValue = y]
        U == pushHistory(T, expr, String(y))
    IN  persistHistory(U, ready, expr, String(y), U.evals)

applyUnary(S, fn, ready) ==
    LET x == toNumber(S.display)
        y == evaluateUnary(x, fn, S.angleMode)
        expr == <<fn, "(">> \o formatNumber(x) \o <<")">>
        T == [S EXCEPT !.display = formatNumber(y), !.waitingForOperand = TRUE]
        U == pushHistory(T, expr, String(y))
    IN  persistHistory(U, ready, expr, String(y), U.evals)

toggleAngleMode(S) ==
    [S EXCEPT !.angleMode = IF S.angleMode = "DEG" THEN "RAD" ELSE "DEG"]


\* ------------------------------------------------- the external store's side
\* loadHistory that stops at a failed probe without clearing sbReady.
probeResponseIgnored(S, ok) ==
    [S EXCEPT !.loadPc = IF ok THEN "fetch" ELSE "probeFailed"]

\* loadHistory after `await checkCalcHistoryAccessible()`.
probeResponse(S, ok) ==
    IF ~ok
    THEN [(IF S.isMounted THEN [S EXCEPT !.sbReady = FALSE] ELSE S)
            EXCEPT !.loadPc = "probeFailed"]
    ELSE [S EXCEPT !.loadPc = "fetch"]

\* getRecentHistory(10) at the store: the newest rows of the table, at most
\* as many as asked for; or the read fails, and the function returns no rows
\* or its promise rejects.
getRecentHistory(S, limit, outcome) ==
    CASE outcome = "rows" ->
           [ok |-> TRUE, throws |-> FALSE, rows |-> Take(S.table, limit)]
      [] outcome = "empty" ->
           [ok |-> FALSE, throws |-> FALSE, rows |-> <<>>]
      [] OTHER ->
           [ok |-> FALSE, throws |-> TRUE, rows |-> <<>>]

fetchServe(S, outcome) ==
    [S EXCEPT !.fetched = getRecentHistory(S, HistoryLimit, outcome),
              !.loadPc = "fetched"]

\* loadHistory that puts the fetched rows before the local entries.
fetchResponseMerges(S) ==
    [(IF ~S.fetched.throws /\ S.isMounted
      THEN [S EXCEPT !.history = S.fetched.rows \o S.history,
                     !.hydratedAt = S.evals]
      ELSE S)
       EXCEPT !.loadPc = IF S.fetched.ok THEN "done" ELSE "readFailed",
              !.fetched = NoRows]

\* loadHistory that applies the rows whatever has happened since.
fetchResponseApplies(S) ==
    [(IF ~S.fetched.throws
      THEN [S EXCEPT !.history = S.fetched.rows, !.hydratedAt = S.evals]
      ELSE S)
       EXCEPT !.loadPc = IF S.fetched.ok THEN "done" ELSE "readFailed",
              !.fetched = NoRows]

\* loadHistory after `await getRecentHistory(10)`.
fetchResponse(S) ==
    [(IF ~S.fetched.throws /\ S.isMounted
      THEN [S EXCEPT !.history = S.fetched.rows, !.hydratedAt = S.evals]
      ELSE S)
       EXCEPT !.loadPc = IF S.fetched.ok THEN "done" ELSE "readFailed",
              !.fetched = NoRows]

\* persistHistory that marks the store ready again when a write succeeds.
writeResponseReconnects(S, w, ok) ==
    [(IF ok
      THEN [S EXCEPT !.table = <<[expression |-> w.expression, result |-> w.result,
                                  created_at |-> w.created_at]>> \o S.table,
                     !.sbReady = S.configured]
      ELSE [S EXCEPT !.sbReady = FALSE])
       EXCEPT !.writes = S.writes \ {w}]

\* persistHistory after `await logCalculation(...)`: the insert has created
\* the row and the call returns no error, or the call returns an error.  (The
\* insert and the arrival of its answer are one step: between the two nothing
\* of the component depends on the request.)
writeResponse(S, w, ok) ==
    [(IF ok
      THEN [S EXCEPT !.table = <<[expression |-> w.expression, result |-> w.result,
                                  created_at |-> w.created_at]>> \o S.table]
      ELSE [S EXCEPT !.sbReady = FALSE])
       EXCEPT !.writes = S.writes \ {w}]

\* ----------------------------------------------------------------- actions
NoLog == <<"off">>
NoTwin == <<>>

\* The state of the second run (of the run itself, when there is none).
Twin == IF twin = NoTwin THEN Cur ELSE twin[1]

\* A command of the user: the handler runs on the state of the run (and of
\* the second run, when there is one), and the component renders.
Press(new, newTwin, key) ==
    /\ Set(Render(Cur, new))
    /\ twin' = IF twin = NoTwin THEN NoTwin ELSE <<Render(Twin, newTwin)>>
    /\ log' = IF log = NoLog THEN NoLog ELSE Append(log, key)

\* A response of the store, or a step of the store itself.
External(new) ==
    /\ Set(Render(Cur, new))
    /\ UNCHANGED <<twin, log>>

\* The results a handler leaves are numbers of the model.
InModel(S, lim) ==
    /\ S.prevValue # Out
    /\ InDomain(S.prevValue, lim)
    /\ InDomain(toNumber(S.display), lim)
    /\ Cardinality(S.writes) <= MaxInflight

OperatorInModel(S) ==
    S.prevValue # Null /\ ~S.waitingForOperand
        => computeBinary(S.prevValue, toNumber(S.display), S.operator) # Out

EqualsInModel(S) ==
    S.operator # "null" /\ S.prevValue # Null
        => computeBinary(S.prevValue, toNumber(S.display), S.operator) # Out

UnaryInModel(S, fn) ==
    evaluateUnary(toNumber(S.display), fn, S.angleMode) # Out

\* A digit button, or a digit key: onKeyDown calls the same handler.
Digit(d, lim) ==
    /\ waitingForOperand \/ display = <<"0">> \/ Len(display) < MaxDisplayLen
    /\ InModel(handleDigit(Cur, d), lim)
    /\ Press(handleDigit(Cur, d), handleDigit(Twin, d), d)

Decimal ==
    /\ waitingForOperand \/ Len(display) < MaxDisplayLen
    /\ Press(handleDecimal(Cur), handleDecimal(Twin), ".")

Operator(op, lim) ==
    /\ OperatorInModel(Cur)
    /\ InModel(handleOperator(Cur, op), lim)
    /\ Press(handleOperator(Cur, op), handleOperator(Twin, op), op)

\* The = button: handleEquals of the current render.
EqualsButton(lim) ==
    /\ EqualsInModel(Cur)
    /\ InModel(handleEquals(Cur, sbReady), lim)
    /\ Press(handleEquals(Cur, sbReady), handleEquals(Twin, Twin.sbReady), "=")

\* The Enter or = key: handleEquals of the render whose onKeyDown is
\* registered.  That render's display, prevValue, operator and
\* waitingForOperand are the current ones (they are the effect's deps); its
\* sbReady is kbSbReady.
EqualsKey(lim) ==
    /\ EqualsInModel(Cur)
    /\ InModel(handleEquals(Cur, kbSbReady), lim)
    /\ Press(handleEquals(Cur, kbSbReady), handleEquals(Twin, Twin.kbSbReady), "=")

Clear == Press(handleClear(Cur), handleClear(Twin), "C")

Unary(fn, lim) ==
    /\ UnaryInModel(Cur, fn)
    /\ InModel(applyUnary(Cur, fn, sbReady), lim)
    /\ Press(applyUnary(Cur, fn, sbReady), applyUnary(Twin, fn, Twin.sbReady), fn)

\* The keys of SpecKeys: digits and the point typed up to KeysDisplayLen
\* characters, DEL, the sign and the percent buttons.
HasPoint(str) == \E i \in 1..Len(str) : str[i] = "."

KeyDigit(d) ==
    /\ waitingForOperand \/ display = <<"0">> \/ Len(display) < KeysDisplayLen
    /\ InModel(handleDigit(Cur, d), MaxAbs)
    /\ Press(handleDigit(Cur, d), handleDigit(Twin, d), d)

KeyDecimal ==
    /\ waitingForOperand \/ HasPoint(display) \/ Len(display) < KeysDisplayLen
    /\ Press(handleDecimal(Cur), handleDecimal(Twin), ".")

Delete == Press(handleDelete(Cur), handleDelete(Twin), "DEL")

PlusMinus == Press(handlePlusMinus(Cur), handlePlusMinus(Twin), "sign")

Percent ==
    /\ percentOf(toNumber(display)) # Out
    /\ InModel(handlePercent(Cur), MaxAbs)
    /\ Press(handlePercent(Cur), handlePercent(Twin), "%")

\* The constant buttons, and the p and e keys.
Constant(name) ==
    Press(handleConstant(Cur, name), handleConstant(Twin, name), name)

\* The decimal places of the display.  The model computes with the display
\* only while they are within MaxScale: the digits of a constant are beyond
\* its numbers, and a run leaves them by the sign, a constant or C.
FracLen(str) ==
    IF HasPoint(str) THEN Len(str) - (CHOOSE i \in 1..Len(str) : str[i] = ".")
    ELSE 0

Evaluable(str) == FracLen(str) <= MaxScale

ToggleAngle == Press(toggleAngleMode(Cur), toggleAngleMode(Twin), "mode")

ProbeResponse(ok) ==
    /\ loadPc = "probe"
    /\ External(probeResponse(Cur, ok))

FetchServe(outcome) ==
    /\ loadPc = "fetch"
    /\ External(fetchServe(Cur, outcome))

FetchResponse ==
    /\ loadPc = "fetched"
    /\ External(fetchResponse(Cur))

WriteResponse(ok) ==
    \E w \in writes : External(writeResponse(Cur, w, ok))

\* ----------------------------------------------------------- specification
\* The tables the store may hold when the session starts.
InitTables == {OldTable(0), OldTable(HistoryLimit + 1)}

\* Spec: the session with its store.  The commands are the ones that
\* evaluate and the ones that build their operands.
Init ==
    /\ \E cfg \in BOOLEAN : \E rows \in InitTables : Set0(Mounted(cfg, rows))
    /\ twin = NoTwin
    /\ log = NoLog

Next ==
    \/ \E d \in Digits : Digit(d, MaxAbs)
    \/ \E op \in Ops : Operator(op, MaxAbs)
    \/ evals < MaxEvals /\ EqualsButton(MaxAbs)
    \/ evals < MaxEvals /\ EqualsKey(MaxAbs)
    \/ \E fn \in Fns : evals < MaxEvals /\ Unary(fn, MaxAbs)
    \/ \E ok \in BOOLEAN : ProbeResponse(ok)
    \/ \E outcome \in {"rows", "empty", "throws"} : FetchServe(outcome)
    \/ FetchResponse
    \/ \E ok \in BOOLEAN : WriteResponse(ok)

Spec == Init /\ [][Next]_vars

\* SpecChain: the logged runs.  The store is not configured; the keys are the
\* digits, the operators and equals, and a run ends with its first equals.
InitChain ==
    /\ Set0(Mounted(FALSE, OldTable(0)))
    /\ twin = NoTwin
    /\ log = <<>>

ChainOpen == Len(log) < MaxCmds /\ (IF log = <<>> THEN TRUE ELSE log[Len(log)] # "=")

\* Equals may be pressed once more after an Equals.
EqualsOpen ==
    /\ Len(log) < MaxCmds
    /\ IF Len(log) < 2 THEN TRUE
       ELSE ~(log[Len(log)] = "=" /\ log[Len(log) - 1] = "=")

NextChain ==
    \/ \E d \in ChainDigits : ChainOpen /\ Digit(d, ChainMaxAbs)
    \/ \E op \in ChainOps : ChainOpen /\ Operator(op, ChainMaxAbs)
    \/ EqualsOpen /\ EqualsButton(ChainMaxAbs)
    \/ EqualsOpen /\ EqualsKey(ChainMaxAbs)

SpecChain == InitChain /\ [][NextChain]_vars

\* SpecPair: two runs given the same commands, the first with a configured
\* store that answers in any way and at any time, the second with no store.
InitPair ==
    /\ Set0(Mounted(TRUE, OldTable(0)))
    /\ twin = <<Mounted(FALSE, OldTable(0))>>
    /\ log = NoLog

NextPair ==
    \/ \E d \in Digits : Digit(d, MaxAbs)
    \/ \E op \in Ops : Operator(op, MaxAbs)
    \/ Decimal
    \/ evals < PairMaxEvals /\ EqualsButton(MaxAbs)
    \/ evals < PairMaxEvals /\ EqualsKey(MaxAbs)
    \/ Clear
    \/ \E fn \in Fns : evals < PairMaxEvals /\ Unary(fn, MaxAbs)
    \/ ToggleAngle
    \/ \E ok \in BOOLEAN : ProbeResponse(ok)
    \/ \E outcome \in {"rows", "empty", "throws"} : FetchServe(outcome)
    \/ FetchResponse
    \/ \E ok \in BOOLEAN : WriteResponse(ok)

SpecPair == InitPair /\ [][NextPair]_vars

\* SpecKeys: the keypad without a store: digits, the point, DEL, sign,
\* percent, division, Equals, Clear and the functions with a domain error.
InitKeys ==
    /\ Set0(Mounted(FALSE, OldTable(0)))
    /\ twin = NoTwin
    /\ log = NoLog

NextKeys ==
    \/ \E d \in KeyDigits : KeyDigit(d)
    \/ KeyDecimal
    \/ Delete
    \/ PlusMinus
    \/ Percent
    \/ \E op \in KeyOps : Operator(op, MaxAbs)
    \/ evals \in KeysEvalsBefore /\ EqualsButton(MaxAbs)
    \/ Clear
    \/ \E fn \in KeyFns : evals \in KeysEvalsBefore /\ Unary(fn, MaxAbs)

SpecKeys == InitKeys /\ [][NextKeys]_vars

\* SpecFull: every command of the keypad and every step of the store.  The
\* sign, the percent, Equals and the functions are pressed up to the first
\* evaluation, the other keys after it as well.
ConstNames == {"PI"}

InitFull ==
    /\ Set0(Mounted(TRUE, OldTable(0)))
    /\ twin = NoTwin
    /\ log = NoLog

NextFull ==
    \/ \E d \in Digits : Evaluable(display) /\ Digit(d, MaxAbs)
    \/ Decimal
    \/ Evaluable(display) /\ Delete
    \/ evals \in KeysEvalsBefore /\ PlusMinus
    \/ Evaluable(display) /\ evals \in KeysEvalsBefore /\ Percent
    \/ \E name \in ConstNames : Constant(name)
    \/ \E op \in Ops : Evaluable(display) /\ Operator(op, MaxAbs)
    \/ Evaluable(display) /\ evals \in KeysEvalsBefore /\ EqualsButton(MaxAbs)
    \/ Evaluable(display) /\ evals \in KeysEvalsBefore /\ EqualsKey(MaxAbs)
    \/ Clear
    \/ \E fn \in Fns :
         Evaluable(display) /\ evals \in KeysEvalsBefore /\ Unary(fn, MaxAbs)
    \/ ToggleAngle
    \/ \E ok \in BOOLEAN : ProbeResponse(ok)
    \/ \E outcome \in {"rows", "empty", "throws"} : FetchServe(outcome)
    \/ FetchResponse
    \/ \E ok \in BOOLEAN : WriteResponse(ok)

SpecFull == InitFull /\ [][NextFull]_vars

\* SpecUnaryChain: the logged runs of SpecChain with the function keys.
NextUnaryChain ==
    \/ NextChain
    \/ \E fn \in Fns : ChainOpen /\ Unary(fn, ChainMaxAbs)

SpecUnaryChain == InitChain /\ [][NextUnaryChain]_vars

\* ================================================================== claims
\* What the claims read of a logged run, by integer arithmetic on the keys.
ApplyOp(acc, op, cur) ==
    CASE op = "none" -> cur
      [] op = "+" -> acc + cur
      [] op = "-" -> acc - cur
      [] op = "*" -> acc * cur

\* The keys l as operand, operator, operand, ...: evaluated left to right.
RECURSIVE FoldChain(_, _, _, _)
FoldChain(l, acc, op, cur) ==
    IF l = <<>> THEN ApplyOp(acc, op, cur)
    ELSE IF Head(l) \in DigitChars
    THEN FoldChain(Tail(l), acc, op, cur * 10 + DigitOf(Head(l)))
    ELSE FoldChain(Tail(l), ApplyOp(acc, op, cur), Head(l), 0)

Front(l) == SubSeq(l, 1, Len(l) - 1)

\* l is operand, operator, operand, ..., operand: digits around every operator.
IsOperands(l) ==
    /\ l # <<>>
    /\ \A i \in 1..Len(l) :
         \/ l[i] \in DigitChars
         \/ /\ l[i] \in ChainOps
            /\ 1 < i /\ i < Len(l)
            /\ l[i - 1] \in DigitChars /\ l[i + 1] \in DigitChars

OperatorCount(l) == Cardinality({i \in 1..Len(l) : l[i] \in ChainOps})

IntString(v) == (IF v < 0 THEN <<"-">> ELSE <<>>) \o IntChars(Abs(v))

\* The integer a string of digits with an optional sign denotes.
IntOfString(str) ==
    IF str[1] = "-" THEN 0 - FoldChain(Tail(str), 0, "none", 0)
    ELSE FoldChain(str, 0, "none", 0)

\* C1: after operand, Operator, operand, ..., operand, Equals from the initial
\* state the display is the left-to-right fold of the operands; and at an
\* Operator press that follows an operand the operation pending until then
\* has been evaluated: the display and the left operand are the fold so far.
C1_ChainFold ==
    /\ (log # <<>> /\ log[Len(log)] = "=" /\ IsOperands(Front(log)))
         => display = IntString(FoldChain(Front(log), 0, "none", 0))
    /\ (log # <<>> /\ log[Len(log)] \in ChainOps /\ IsOperands(Front(log)))
         => /\ display = IntString(FoldChain(Front(log), 0, "none", 0))
            /\ prevValue = Num(FoldChain(Front(log), 0, "none", 0), 0)
            /\ operator = log[Len(log)]

\* A chain of three operands whose fold differs from the value by precedence:
\* 2 + 3 * 3 = shows (2 + 3) * 3 = 15.
C1_Witness ==
    /\ log = <<"2", "+", "3", "*", "3", "=">>
    /\ display = <<"1", "5">>

\* C2: Equals with an operation pending shows left op display, clears the
\* operator and the left operand, sets the boundary flag and makes
\* ("<left> <op> <right>", result) the newest history entry; and 1, 2, +, 3, =
\* from the initial state gives display "15" and history [("12 + 3", "15")].
C2_EqualsStep ==
    (log' = Append(log, "=") /\ operator # "null" /\ prevValue # Null)
      => LET left == prevValue.n
             res == IntString(ApplyOp(left, operator, IntOfString(display)))
         IN  /\ display' = res
             /\ operator' = "null"
             /\ prevValue' = Null
             /\ waitingForOperand'
             /\ Len(history') = Len(history) + 1
             /\ history'[1].expression = IntString(left) \o <<" ", operator, " ">> \o display
             /\ history'[1].result = res

C2_Scenario ==
    log = <<"1", "2", "+", "3", "=">>
      => /\ display = <<"1", "5">>
         /\ history = <<[expression |-> <<"1", "2", " ", "+", " ", "3">>,
                         result |-> <<"1", "5">>, created_at |-> 1]>>
         /\ operator = "null" /\ prevValue = Null /\ waitingForOperand

C2_Equals == [](C2_Scenario) /\ [][C2_EqualsStep]_vars

C2_Witness ==
    /\ log = <<"1", "2", "+", "3", "=">>
    /\ display = <<"1", "5">>
    /\ Len(history) = 1


\* ConnectivityState of the run.
ConnState == Connectivity(Cur)

\* C3: the local history never holds more than 10 entries.
C3_HistoryCap == Len(history) <= 10

\* An entry recorded on top of ten fetched rows: the oldest row is gone.
C3_Witness ==
    /\ Len(history) = 10
    /\ history[1].created_at > 0
    /\ history[10].created_at = 0

\* C4: whatever the connectivity, an effective Equals and a unary function
\* record their entry in the step that evaluates: the newest entry then holds
\* the expression and the result of the evaluation, and the entries before
\* follow it in their order, the oldest gone beyond 10.
C4_Step ==
    evals' = evals + 1
      => LET x == toNumber(display)
             equals == prevValue # Null /\ prevValue' = Null
         IN  /\ history' # <<>>
             /\ history'[1].created_at = evals'
             /\ history'[1].result = display'
             /\ IF equals
                THEN /\ history'[1].expression =
                          String(prevValue) \o <<" ", operator, " ">> \o String(x)
                     /\ history'[1].result = String(computeBinary(prevValue, x, operator))
                ELSE \E fn \in Fns :
                     /\ history'[1].expression = <<fn, "(">> \o String(x) \o <<")">>
                     /\ history'[1].result = String(evaluateUnary(x, fn, angleMode))
             /\ Tail(history') = Take(history, 9)

C4_RecordsLocally == [][C4_Step]_vars

\* Offline after a failed write, and an entry recorded then on top of ten
\* fetched rows.
C4_Witness ==
    /\ ConnState = "Offline"
    /\ Len(history) = 10
    /\ evals = 2
    /\ history[1].created_at = 2
    /\ history[2].created_at = 1
    /\ history[10].created_at = 0

\* C5: once Offline, never Connected again, whatever answer arrives; and an
\* evaluation while Offline still shows its result and records its entry.
C5_Step ==
    ConnState = "Offline"
      => /\ ConnState' = "Offline"
         /\ evals' = evals + 1
              => /\ history'[1].created_at = evals'
                 /\ history'[1].result = display'

C5_OfflineStays == [][C5_Step]_vars

\* Offline with the probe unanswered and the table as it was: the write of
\* the first evaluation failed, and the second evaluation came after it.
C5_Witness ==
    /\ ConnState = "Offline"
    /\ loadPc = "probe"
    /\ evals = 2
    /\ history[1].created_at = 2
    /\ \A i \in 1..Len(table) : table[i].created_at = 0

\* The three failures of the store as steps of the run.
ProbeFailed == loadPc = "probe" /\ loadPc' = "probeFailed"
ReadFailed == loadPc = "fetched" /\ loadPc' = "readFailed"
WriteFailed == \E w \in writes : w \notin writes' /\ table' = table

C7_NoWriteWhenOffline ==
    [][ConnState = "Offline" => writes' \subseteq writes]_vars

\* The entries of the local history and of the store's table.
InHistory(r) ==
    \E i \in 1..Len(history) :
        /\ history[i].expression = r.expression
        /\ history[i].result = r.result
        /\ history[i].created_at = r.created_at

EvictedByCap(r) ==
    Cardinality({i \in 1..Len(history) : history[i].created_at > r.created_at}) >= 10

InitiallyEmpty == \A i \in 1..Len(table) : table[i].created_at # 0

\* C9 as stated: with a store that was empty, every entry the session has
\* written to it is in the local history, unless the cap evicted it.
C9_LocalNotBehind ==
    InitiallyEmpty
      => \A i \in 1..Len(table) : InHistory(table[i]) \/ EvictedByCap(table[i])

\* C9 amended: with a store that was empty, every entry the session has
\* written to it and recorded after the fetched rows replaced the local
\* history (every entry, while they have not) is in the local history, unless
\* the cap evicted it.
C9_LocalNotBehindSinceHydration ==
    InitiallyEmpty
      => \A i \in 1..Len(table) :
           table[i].created_at > hydratedAt
             => InHistory(table[i]) \/ EvictedByCap(table[i])

\* After the rows were applied: a later entry, written and still local.
C9_Witness ==
    /\ InitiallyEmpty
    /\ loadPc = "done"
    /\ hydratedAt = 1
    /\ \E i \in 1..Len(table) : table[i].created_at = 2 /\ InHistory(table[i])
    /\ \E i \in 1..Len(table) : table[i].created_at = 1 /\ ~InHistory(table[i])

\* C10: when the fetch completes while still Connected, the local history
\* becomes the fetched rows: what was recorded since the mount is dropped.
C10_HydrationReplaces ==
    [][(loadPc = "fetched" /\ loadPc' # "fetched" /\ ConnState = "Connected"
          /\ ~fetched.throws)
         => history' = fetched.rows]_vars

\* Rows applied after an evaluation, and only fetched rows left.
C10_Witness ==
    /\ loadPc = "done"
    /\ ConnState = "Connected"
    /\ evals > 0
    /\ hydratedAt = evals
    /\ history # <<>>
    /\ \A i \in 1..Len(history) : history[i].created_at = 0

\* The arithmetic state of a run.
Arith(S) == <<S.display, S.prevValue, S.operator, S.waitingForOperand, S.angleMode>>

\* A step of the store, as against a command of the user.
StoreStep ==
    \/ \E ok \in BOOLEAN : ProbeResponse(ok)
    \/ \E outcome \in {"rows", "empty", "throws"} : FetchServe(outcome)
    \/ FetchResponse
    \/ \E ok \in BOOLEAN : WriteResponse(ok)

\* C8: two runs given the same commands go through the same display, left
\* operand, operator, boundary flag and angle mode, however the store of one
\* of them behaves (here the other has no store); and a step of the store
\* changes none of these.
C8_ArithIndependent ==
    /\ [](twin # NoTwin => Arith(twin[1]) = Arith(Cur))
    /\ [][StoreStep => UNCHANGED <<display, prevValue, operator,
                                   waitingForOperand, angleMode>>]_vars

\* The runs differ in what the store did (one is Offline after a failed
\* write, its history replaced by fetched rows) and have both evaluated.
C8_Witness ==
    /\ twin # NoTwin
    /\ ConnState = "Offline"
    /\ loadPc = "done"
    /\ evals = PairMaxEvals
    /\ twin[1].evals = PairMaxEvals
    /\ Len(history) < Len(twin[1].history)
    /\ display # <<"0">>

\* C11: without credentials ConnectivityState is Unconfigured throughout, no
\* probe, no history read and no mirror write is ever issued (the store's
\* table stays as it was), and each evaluation shows its result and records
\* its entry locally.
C11_Inv ==
    ~configured
      => /\ ConnState = "Unconfigured"
         /\ ~sbReady /\ ~kbSbReady
         /\ loadPc = "none"
         /\ writes = {}
         /\ \A i \in 1..Len(table) : table[i].created_at = 0
         /\ Len(history) = evals

C11_Step ==
    (~configured /\ evals' = evals + 1)
      => /\ history'[1].created_at = evals'
         /\ history'[1].result = display'
         /\ Tail(history') = history

C11_Unconfigured == [](C11_Inv) /\ [][C11_Step]_vars

\* Two evaluations without credentials, both in the local history.
C11_Witness ==
    /\ ~configured
    /\ evals = 2
    /\ Len(history) = 2
    /\ history[1].created_at = 2
    /\ Len(table) > 0

\* Every entry recorded in the session is in the store or on its way there:
\* the store has refused no insert.
InTable(r) ==
    \E i \in 1..Len(table) :
        /\ table[i].expression = r.expression
        /\ table[i].result = r.result
        /\ table[i].created_at = r.created_at

AllAccepted ==
    \A i \in 1..Len(history) :
        history[i].created_at > 0
          => InTable(history[i]) \/ history[i] \in writes

\* C15: when the store rejects the read side (the probe or the fetch has
\* failed) and has refused no insert, the history holds no fetched row and
\* every evaluation issues its mirror write.
C15_WriteOnlyMode ==
    [][(configured /\ loadPc \in {"probeFailed", "readFailed"} /\ AllAccepted)
         => /\ \A i \in 1..Len(history) : history[i].created_at > 0
            /\ evals' = evals + 1 => \E w \in writes' : w \notin writes]_vars

\* C16: Clear sets the display to "0", clears the pending operator, the left
\* operand and the boundary flag, and leaves the history, the angle mode and
\* ConnectivityState as they were; the angle mode changes by the toggle only.
C16_Step ==
    /\ Clear => /\ display' = <<"0">>
                /\ operator' = "null"
                /\ prevValue' = Null
                /\ ~waitingForOperand'
                /\ UNCHANGED <<history, angleMode, sbReady, configured,
                               writes, table, loadPc, evals>>
    /\ angleMode' # angleMode => ToggleAngle

C16_ClearFrame == [][C16_Step]_vars

\* After Clear: the display "0" with the flag clear, the history of the
\* evaluation before still there, RAD kept, Offline kept.
C16_Witness ==
    /\ display = <<"0">>
    /\ ~waitingForOperand
    /\ operator = "null" /\ prevValue = Null
    /\ history # <<>>
    /\ evals > 0
    /\ angleMode = "RAD"
    /\ ConnState = "Offline"

\* C17: Equals with no operator or no left operand pending changes nothing:
\* not the display, the operator, the left operand, the flag, the angle mode,
\* the history, ConnectivityState, nor the requests to the store.
C17_EqualsNoOp ==
    [][((operator = "null" \/ prevValue = Null)
          /\ (EqualsButton(MaxAbs) \/ EqualsKey(MaxAbs)))
         => UNCHANGED vars]_vars

\* Just after an evaluation whose write is on its way: nothing is pending,
\* and Equals pressed now is the second in a row.
C17_Witness ==
    /\ operator = "null" /\ prevValue = Null
    /\ waitingForOperand
    /\ evals = 1
    /\ Len(history) = 1
    /\ history[1].expression = <<"2", " ", "+", " ", "2">>
    /\ writes # {}
    /\ ConnState = "Connected"

\* C19: the probe and the fetch are issued at most once (loadHistory only
\* moves forward: probe, then fetch if the probe succeeded, then its answer),
\* and the rows that arrive when the state is no longer Connected are not
\* applied.
C19_Step ==
    /\ loadPc' # loadPc
         => <<loadPc, loadPc'>> \in
              {<<"probe", "fetch">>, <<"probe", "probeFailed">>,
               <<"fetch", "fetched">>,
               <<"fetched", "done">>, <<"fetched", "readFailed">>}
    /\ (loadPc = "probe" /\ loadPc' = "fetch") => UNCHANGED <<sbReady, history>>
    /\ (loadPc = "fetched" /\ loadPc' # "fetched" /\ ConnState # "Connected")
         => history' = history

C19_HydrationOnce == [][C19_Step]_vars

\* Rows fetched from a table of eleven, arrived after a write had failed:
\* the history holds the entry of the session only.
C19_Witness ==
    /\ loadPc = "done"
    /\ ConnState = "Offline"
    /\ Len(table) = HistoryLimit + 1
    /\ Len(history) = 1
    /\ history[1].created_at = 1

\* C20: Operator with a left operand pending and the boundary flag set only
\* replaces the pending operator: the left operand, the display and the
\* history stay; Operator with no left operand pending makes the number the
\* display shows the left operand and leaves the display.
C20_Step ==
    \A op \in ChainOps :
      log' = Append(log, op)
        => /\ operator' = op
           /\ (prevValue # Null /\ waitingForOperand)
                => UNCHANGED <<prevValue, display, history, evals>>
           /\ prevValue = Null
                => /\ prevValue' = Num(IntOfString(display), 0)
                   /\ UNCHANGED <<display, history, evals>>

C20_OperatorReplace == [][C20_Step]_vars

\* 2 + * 3 = shows 2 * 3: the second operator replaced the first.
C20_Witness ==
    /\ log = <<"2", "+", "*", "3", "=">>
    /\ display = <<"6">>

\* The display parses to a finite number.
ParsesFinite(str) == JSNumber(str).k = "num"

NaNChars == <<"N", "a", "N">>

\* The tokens of a result that is no finite number, as the display can hold
\* them: NaN and Infinity, and each with the sign ToggleSign puts before it.
NonFiniteTokens ==
    {NaNChars, <<"-">> \o NaNChars, InfinityChars, <<"-">> \o InfinityChars}

\* C12 as stated: the display always parses to a finite number or is "0".
C12_DisplayFinite == display = <<"0">> \/ ParsesFinite(display)

\* C12 amended: the display parses to a finite number, or it is the token of
\* a result that is no number (NaN, Infinity), with or without a minus sign,
\* and then the boundary flag is set, so that the next digit or point
\* replaces it; Percent applied to such a token shows "0".
C12_Inv ==
    \/ ParsesFinite(display)
    \/ display \in NonFiniteTokens /\ waitingForOperand

C12_Step ==
    (Percent /\ display \in NonFiniteTokens) => display' = <<"0">>

C12_DisplayFiniteOrToken == [](C12_Inv) /\ [][C12_Step]_vars

\* ToggleSign after a division by zero: the display holds -NaN.
C12_Witness ==
    /\ display = <<"-">> \o NaNChars
    /\ evals = 1
    /\ history[1].expression = <<"4", " ", "/", " ", "0">>

\* The points in a string.
Points(str) == Cardinality({i \in 1..Len(str) : str[i] = "."})

\* C13: the display never holds two decimal points; Decimal on a display
\* that holds one, the boundary flag clear, changes nothing, and with the
\* flag set it makes the display "0." and clears the flag.
C13_Step ==
    KeyDecimal
      => IF waitingForOperand
         THEN display' = <<"0", ".">> /\ ~waitingForOperand'
         ELSE IF HasPoint(display)
         THEN UNCHANGED vars
         ELSE display' = Append(display, ".") /\ ~waitingForOperand'

C13_OnePoint == [](Points(display) <= 1) /\ [][C13_Step]_vars

\* A fraction typed after an evaluation: "0." started at the boundary, a
\* digit after it, and the flag clear, where Decimal changes nothing.
C13_Witness ==
    /\ display = <<"0", ".", "4">>
    /\ ~waitingForOperand
    /\ evals = 1

\* C14: a division by zero at Equals, sqrt of a negative display and the
\* reciprocal of 0 put NaN into the display and into the result of the entry
\* recorded, with the transition of any evaluation (the flag set, at Equals
\* the operator and the left operand cleared); the digit pressed next starts
\* a new operand.
C14_Step ==
    LET x == toNumber(display)
        equals == operator # "null" /\ prevValue # Null /\ prevValue' = Null
        byZero == equals /\ operator = "/" /\ x.n = 0
        domain == ~equals /\ (\E fn \in {"sqrt", "1/x"} :
                                /\ history'[1].expression
                                     = <<fn, "(">> \o String(x) \o <<")">>
                                /\ IF fn = "sqrt" THEN x.n < 0 ELSE x.n = 0)
    IN  /\ (evals' = evals + 1 /\ (byZero \/ domain))
             => /\ display' = NaNChars
                /\ history'[1].result = NaNChars
                /\ waitingForOperand'
                /\ equals => operator' = "null"
                /\ ~equals => UNCHANGED <<operator, prevValue>>
        /\ \A d \in KeyDigits :
             (KeyDigit(d) /\ display = NaNChars)
               => display' = <<d>> /\ ~waitingForOperand'

C14_DomainErrors == [][C14_Step]_vars

\* sqrt of "-4": NaN shown and recorded.
C14_Witness ==
    /\ display = NaNChars
    /\ waitingForOperand
    /\ history # <<>>
    /\ history[1].expression = <<"sqrt", "(", "-", "4", ")">>
    /\ history[1].result = NaNChars

\* C18: the boundary flag is set after every Operator, every effective
\* Equals and every unary function; the digit d pressed then replaces the
\* display with d and clears the flag; with the flag clear the digit is
\* appended, a lone "0" being replaced.
C18_Step ==
    /\ ((\E op \in KeyOps : Operator(op, MaxAbs)) \/ evals' = evals + 1)
         => waitingForOperand'
    /\ \A d \in KeyDigits :
         KeyDigit(d)
           => /\ ~waitingForOperand'
              /\ display' = IF waitingForOperand \/ display = <<"0">>
                            THEN <<d>> ELSE Append(display, d)

C18_BoundaryFlag == [][C18_Step]_vars

\* After an evaluation a 4 and a point were typed, and a 0 appended.
C18_Witness ==
    /\ display = <<"4", ".", "0">>
    /\ ~waitingForOperand
    /\ evals = 1

\* The pending pair: the operator and the left operand.
Pending == <<operator, prevValue>>

OperatorPress ==
    Evaluable(display) /\ \E op \in Ops : Operator(op, MaxAbs)

\* An Equals of SpecFull with an operator and a left operand pending.
EffectiveEquals ==
    /\ operator # "null"
    /\ prevValue # Null
    /\ evals \in KeysEvalsBefore
    /\ Evaluable(display)
    /\ (EqualsButton(MaxAbs) \/ EqualsKey(MaxAbs))

Present(op, left) == op # "null" /\ left # Null
Absent(op, left) == op = "null" /\ left = Null

C21_Inv == Present(operator, prevValue) \/ Absent(operator, prevValue)

\* A step that changes the pair is one of the three; a step that leaves the
\* pair other than absent is no Clear and no effective Equals, and one that
\* leaves it other than present is no Operator press.
C21_Step ==
    /\ Pending' # Pending => (Clear \/ OperatorPress \/ EffectiveEquals)
    /\ ~Absent(operator', prevValue') => ~Clear /\ ~EffectiveEquals
    /\ ~Present(operator', prevValue') => ~OperatorPress

\* C21: the pending operator and the pending left operand are always both
\* present or both absent; an Operator press leaves both present, an effective
\* Equals and a Clear leave both absent, and no other command (Digit, Decimal,
\* Delete, the sign, Percent, a constant, a unary function, the angle toggle)
\* and no response of the store changes either of them.
C21_PendingPair == [](C21_Inv) /\ [][C21_Step]_vars

\* A constant entered as the right operand while 2 + is pending, the store
\* having answered the probe.
C21_Witness ==
    /\ display = PiChars
    /\ operator = "+"
    /\ prevValue = Num(2, 0)
    /\ ~waitingForOperand
    /\ loadPc # "probe"

\* The keys so far are digits a, an operator at i, digits b, a function and
\* an operator.
IsUnaryChain(l, i) ==
    /\ 1 < i /\ i < Len(l) - 2
    /\ l[i] \in ChainOps
    /\ l[Len(l)] \in ChainOps
    /\ l[Len(l) - 1] \in Fns
    /\ AllDigits(SubSeq(l, 1, i - 1))
    /\ AllDigits(SubSeq(l, i + 1, Len(l) - 2))

\* C22: after digits a, Operator op1, digits b, UnaryFunction fn and
\* Operator op2, the pending left operand and the display are
\* evaluateBinary(a, fn(b), op1): the transformed right operand is consumed
\* by the next operator.
C22_UnaryInChain ==
    \A i \in 1..Len(log) :
        IsUnaryChain(log, i)
          => LET a == toNumber(SubSeq(log, 1, i - 1))
                 b == toNumber(SubSeq(log, i + 1, Len(log) - 2))
                 y == evaluateUnary(b, log[Len(log) - 1], angleMode)
                 r == computeBinary(a, y, log[i])
             IN  prevValue = r /\ display = formatNumber(r)

=============================================================================
